---- MODULE Spec2Model ----
(***************************************************************************)
(* Model of api.py: the Flask service that stores query cards (QueryCard)  *)
(* and forwards a SQL text to the Gemini collaborator for an explanation.  *)
(* Requests are served concurrently: handle_cards runs in one database    *)
(* transaction, delete_card reads the card and later commits the delete,   *)
(* analisar_query blocks on the collaborator between its checks and its    *)
(* response; inflight holds the requests that are between two such steps.  *)
(***************************************************************************)
EXTENDS Integers, Sequences, FiniteSets, Bags, TLC

\* ---------------------------------------------------------------- bounds
MaxInFlight == 2
MaxCreates == 2
MaxCalls == 2

CardIds == 1..MaxCreates

\* ------------------------------------------------------- JSON / Python values
\* A key that the JSON object does not have, and JSON null (Python None).
Absent == "<absent>"
Null == "<null>"

\* request.json: None (body "null"), or an object with the keys it carries.
NoData == [body |-> "none", cliente |-> Absent, obs |-> Absent, query |-> Absent]
NullBody == [body |-> "null", cliente |-> Absent, obs |-> Absent, query |-> Absent]

\* Create payloads: the accepted ones (obs omitted, null or given), and the
\* rejected ones (no body, the empty object, cliente or query missing, null
\* or empty).
CreatePayloads ==
    {NullBody} \cup
    [body : {"object"}, cliente : {"Acme"}, obs : {Absent, Null, "n"}, query : {"SELECT 1"}] \cup
    [body : {"object"}, cliente : {Absent, Null, ""}, obs : {Absent}, query : {"SELECT 1"}] \cup
    [body : {"object"}, cliente : {"Acme"}, obs : {"n"}, query : {Absent, Null, ""}] \cup
    [body : {"object"}, cliente : {Absent}, obs : {Absent}, query : {Absent}]

AnalyzePayloads ==
    {NullBody} \cup
    [body : {"object"}, cliente : {Absent}, obs : {Absent},
     query : {Absent, Null, "", "SELECT 1"}]

\* What the collaborator can return (response.text, as characters) or raise.
Texts == {<<" ", "a", " ", "b", " ">>, <<" ">>}
FailMsgs == {"quota exceeded", "timeout"}

\* dict.get(k): the value, or None when the key is missing.
Get(data, k) == IF data[k] = Absent THEN Null ELSE data[k]

\* dict.get(k, d): the value, or d when the key is missing.
GetDefaultNoDefault(data, k, d) == data[k]
GetDefault(data, k, d) == IF data[k] = Absent THEN d ELSE data[k]

\* Python truthiness of a value: None and '' are falsy.
FalsyNoneOnly(v) == v = Null
Falsy(v) == v \in {Null, ""}

\* `not data`: None, or the empty dict.
NotData(data) ==
    \/ data.body = "null"
    \/ data.cliente = Absent /\ data.obs = Absent /\ data.query = Absent

\* str.strip() on a sequence of characters.
RECURSIVE LStrip(_)
LStrip(s) == IF s # <<>> /\ Head(s) = " " THEN LStrip(Tail(s)) ELSE s
RECURSIVE RStrip(_)
RStrip(s) ==
    IF s # <<>> /\ s[Len(s)] = " " THEN RStrip(SubSeq(s, 1, Len(s) - 1)) ELSE s
Strip(s) == RStrip(LStrip(s))

\* ------------------------------------------------------------------ state
VARIABLES
    key,        \* GEMINI_API_KEY is set
    backend,    \* what DATABASE_URL selects: a sequence-backed store, or SQLite
    cards,      \* rows of the query_card table
    seq,        \* last value of the id sequence (sequence-backed store)
    assigned,   \* history: the ids handed out, in order
    gone,       \* history: ids deleted with success and not created since
    calls,      \* how many times generate_content was invoked
    inflight,   \* bag of the requests being served, each with its locals
    last        \* the request completed last, with its response

vars == <<key, backend, cards, seq, assigned, gone, calls, inflight, last>>

\* A request in flight: delete_card holding the card it looked up, or
\* analisar_query waiting for generate_content(prompt).
Deleting(card_id) == [op |-> "delete", id |-> card_id, data |-> NoData, prompt |-> <<>>]
Calling(data, prompt) == [op |-> "analyze", id |-> 0, data |-> data, prompt |-> prompt]

\* A request can be taken while fewer than MaxInFlight are being served.
Free == BagCardinality(inflight) < MaxInFlight

Enter(r) == inflight (+) SetToBag({r})
Leave(r) == inflight (-) SetToBag({r})

Ids(cs) == {c.id : c \in cs}

Max(S) == CHOOSE x \in S : \A y \in S : y <= x

\* QueryCard.to_dict
to_dict(c) == [id |-> c.id, cliente |-> c.cliente, obs |-> c.observacao, query |-> c.query_sql]

\* The id the store gives a new row: the next value of the sequence, or for
\* SQLite's INTEGER PRIMARY KEY one more than the largest id in the table.
NextId(b, cs, s) ==
    IF b = "sqlite"
    THEN (IF cs = {} THEN 1 ELSE Max(Ids(cs)) + 1)
    ELSE s + 1

\* QueryCard.query.order_by(QueryCard.id.desc()).all()
RECURSIVE OrderByIdAsc(_)
OrderByIdAsc(cs) ==
    IF cs = {} THEN <<>>
    ELSE LET m == CHOOSE c \in cs : \A d \in cs : c.id <= d.id
         IN <<m>> \o OrderByIdAsc(cs \ {m})
RECURSIVE OrderByIdDesc(_)
OrderByIdDesc(cs) ==
    IF cs = {} THEN <<>>
    ELSE LET m == CHOOSE c \in cs : \A d \in cs : d.id <= c.id
         IN <<m>> \o OrderByIdDesc(cs \ {m})

\* [card.to_dict() for card in cards]
RECURSIVE ToDicts(_)
ToDicts(s) == IF s = <<>> THEN <<>> ELSE <<to_dict(Head(s))>> \o ToDicts(Tail(s))

\* QueryCard.query.get(card_id): the set holding the row, or {} for None.
QueryGetAnyRow(cs, id) == cs
QueryGet(cs, id) == {c \in cs : c.id = id}

\* The f-string prompt around the query.
PromptHead == "Voce e um especialista em SQL. Analise a query abaixo. Query SQL:"
PromptTail == "fim"
Prompt(q) == <<PromptHead, q, PromptTail>>

\* Messages of the responses.
MsgCamposObrigatorios == "Cliente e Query sao campos obrigatorios."
MsgNenhumaQuery == "Nenhuma query foi fornecida para analise."
MsgCardNaoEncontrado == "Card nao encontrado."
MsgCardExcluido == "Card excluido com sucesso!"
MsgChave == "A chave da API Gemini nao foi configurada no servidor."
MsgOnline == "API do Gerenciador de Queries esta no ar!"
ErrPrefix == "Ocorreu um erro ao contatar a API de IA: "
StrAttributeError == "'NoneType' object has no attribute 'get'"
StrAbort400 == "400 Bad Request: Nenhuma query foi fornecida para analise."

\* A response: status, the shape of the JSON body, and the body's content;
\* upstream records what the collaborator did for the request: "none" (not
\* called), "ok", or the message of the error it raised.
Response(op, data, id, status, kind, cs, text, up) ==
    [op |-> op, data |-> data, id |-> id, status |-> status,
     kind |-> kind, cards |-> cs, text |-> text, upstream |-> up]

\* jsonify({'erro': f'Ocorreu um erro ao contatar a API de IA: {str(e)}'}), 500
ErroBodyNoMessage(e) == <<ErrPrefix>>
ErroBody(e) == <<ErrPrefix, e>>

\* The part of analisar_query before the collaborator is called: what the
\* request runs into first.
AnalyzeCheckValidateFirst(k, data) ==
    IF data.body = "null" THEN (IF k THEN "attribute_error" ELSE "no_key")
    ELSE IF Falsy(Get(data, "query")) THEN "abort_400"
    ELSE IF ~k THEN "no_key"
    ELSE "call"
AnalyzeCheckNoValidation(k, data) ==
    IF ~k THEN "no_key"
    ELSE IF data.body = "null" THEN "attribute_error"
    ELSE "call"
AnalyzeCheck(k, data) ==
    IF ~k THEN "no_key"
    ELSE IF data.body = "null" THEN "attribute_error"
    ELSE IF Falsy(Get(data, "query")) THEN "abort_400"
    ELSE "call"

\* ------------------------------------------------------------------- Init
Init ==
    /\ key \in BOOLEAN
    /\ backend \in {"sequence", "sqlite"}
    /\ cards = {}
    /\ seq = 0
    /\ assigned = <<>>
    /\ gone = {}
    /\ calls = 0
    /\ inflight = EmptyBag
    /\ last = Response("none", NoData, 0, 0, "none", <<>>, <<>>, "none")

\* ---------------------------------------------------------------- actions
\* GET /
index ==
    /\ Free
    /\ last' = Response("index", NoData, 0, 200, "status", <<>>, <<"online", MsgOnline>>, "none")
    /\ UNCHANGED <<key, backend, cards, seq, assigned, gone, calls, inflight>>

\* POST /api/cards
handle_cards_POST(data) ==
    /\ Free
    /\ IF NotData(data) \/ Falsy(Get(data, "cliente")) \/ Falsy(Get(data, "query"))
       THEN /\ last' = Response("create", data, 0, 400, "abort", <<>>,
                                <<MsgCamposObrigatorios>>, "none")
            /\ UNCHANGED <<cards, seq, assigned, gone>>
       ELSE /\ Len(assigned) < MaxCreates
            /\ LET new_card == [id |-> NextId(backend, cards, seq),
                                cliente |-> data.cliente,
                                observacao |-> GetDefault(data, "obs", ""),
                                query_sql |-> data.query]
               IN /\ cards' = cards \cup {new_card}
                  /\ seq' = IF backend = "sqlite" THEN seq ELSE new_card.id
                  /\ assigned' = Append(assigned, new_card.id)
                  /\ gone' = gone \ {new_card.id}
                  /\ last' = Response("create", data, new_card.id, 201, "card",
                                      <<to_dict(new_card)>>, <<>>, "none")
    /\ UNCHANGED <<key, backend, calls, inflight>>

\* GET /api/cards
handle_cards_GET ==
    /\ Free
    /\ last' = Response("list", NoData, 0, 200, "cards",
                        ToDicts(OrderByIdDesc(cards)), <<>>, "none")
    /\ UNCHANGED <<key, backend, cards, seq, assigned, gone, calls, inflight>>

\* DELETE /api/cards/<card_id>, up to the lookup: 404 when there is no row.
delete_card_get(card_id) ==
    /\ Free
    /\ IF QueryGet(cards, card_id) = {}
       THEN /\ last' = Response("delete", NoData, card_id, 404, "abort", <<>>,
                                <<MsgCardNaoEncontrado>>, "none")
            /\ UNCHANGED inflight
       ELSE /\ inflight' = Enter(Deleting(card_id))
            /\ UNCHANGED last
    /\ UNCHANGED <<key, backend, cards, seq, assigned, gone, calls>>

\* db.session.delete(card); db.session.commit(): DELETE ... WHERE id = ?, which
\* matches no row when another request deleted the card meanwhile.
delete_card_commit(r) ==
    /\ BagIn(r, inflight) /\ r.op = "delete"
    /\ cards' = {c \in cards : c.id # r.id}
    /\ gone' = gone \cup {r.id}
    /\ last' = Response("delete", NoData, r.id, 200, "message", <<>>,
                        <<MsgCardExcluido>>, "none")
    /\ inflight' = Leave(r)
    /\ UNCHANGED <<key, backend, seq, assigned, calls>>

\* POST /api/analisar-query, up to model.generate_content(prompt)
analisar_query(data) ==
    /\ Free
    /\ LET chk == AnalyzeCheck(key, data) IN
       CASE chk = "no_key" ->
              /\ last' = Response("analyze", data, 0, 500, "erro", <<>>, <<MsgChave>>, "none")
              /\ UNCHANGED <<calls, inflight>>
         [] chk = "attribute_error" ->
              /\ last' = Response("analyze", data, 0, 500, "erro", <<>>,
                                  ErroBody(StrAttributeError), "none")
              /\ UNCHANGED <<calls, inflight>>
         [] chk = "abort_400" ->
              /\ last' = Response("analyze", data, 0, 500, "erro", <<>>,
                                  ErroBody(StrAbort400), "none")
              /\ UNCHANGED <<calls, inflight>>
         [] chk = "call" ->
              /\ calls < MaxCalls
              /\ calls' = calls + 1
              /\ inflight' = Enter(Calling(data, Prompt(Get(data, "query"))))
              /\ UNCHANGED last
    /\ UNCHANGED <<key, backend, cards, seq, assigned, gone>>

\* generate_content returned: jsonify({'explicacao': explicacao.strip()})
analisar_query_return(r, text) ==
    /\ BagIn(r, inflight) /\ r.op = "analyze"
    /\ last' = Response("analyze", r.data, 0, 200, "explicacao", <<>>, Strip(text), "ok")
    /\ inflight' = Leave(r)
    /\ UNCHANGED <<key, backend, cards, seq, assigned, gone, calls>>

\* generate_content or response.text raised: the except branch
analisar_query_except(r, e) ==
    /\ BagIn(r, inflight) /\ r.op = "analyze"
    /\ last' = Response("analyze", r.data, 0, 500, "erro", <<>>, ErroBody(e), e)
    /\ inflight' = Leave(r)
    /\ UNCHANGED <<key, backend, cards, seq, assigned, gone, calls>>

Next ==
    \/ index
    \/ \E data \in CreatePayloads : handle_cards_POST(data)
    \/ handle_cards_GET
    \/ \E card_id \in CardIds : delete_card_get(card_id)
    \/ \E r \in BagToSet(inflight) : delete_card_commit(r)
    \/ \E data \in AnalyzePayloads : analisar_query(data)
    \/ \E r \in BagToSet(inflight), text \in Texts : analisar_query_return(r, text)
    \/ \E r \in BagToSet(inflight), e \in FailMsgs : analisar_query_except(r, e)

Spec == Init /\ [][Next]_vars

\* ------------------------------------------------------------- properties
TypeOK ==
    /\ key \in BOOLEAN
    /\ backend \in {"sequence", "sqlite"}
    /\ Ids(cards) \subseteq CardIds
    /\ Cardinality(Ids(cards)) = Cardinality(cards)
    /\ seq \in 0..MaxCreates
    /\ Len(assigned) <= MaxCreates
    /\ gone \subseteq CardIds
    /\ calls \in 0..MaxCalls
    /\ BagCardinality(inflight) <= MaxInFlight
    /\ \A r \in BagToSet(inflight) : r.op \in {"delete", "analyze"}

\* The request completed by this step, if any, is last'.
Completed == last' # last

\* This step ends a request that was in flight; last' is its response.
Finished == BagCardinality(inflight') < BagCardinality(inflight)

\* The query of an analyze payload is absent, null or empty.
QueryMissing(d) == d.query \in {Absent, Null, ""}

\* A required field of a create payload is absent, null or empty.
CreateInvalid(d) == d.cliente \in {Absent, Null, ""} \/ d.query \in {Absent, Null, ""}

\* The position of the latest create that handed out id.
Birth(h, id) == Max({i \in 1..Len(h) : h[i] = id})

\* C1: with the credential configured, an analyze request whose query is
\* absent or empty is answered with status 400 (ValidationError), never 500.
C1_EmptyQueryIs400 ==
    (last.op = "analyze" /\ key /\ last.data.body = "object" /\ QueryMissing(last.data))
        => last.status = 400

\* C2: the collaborator is invoked only by a request that starts with the
\* credential configured and a non-empty query, once for that request; a
\* request with an empty query or without the credential leaves the
\* invocation count unchanged, and finishing a request never invokes again.
C2_CollaboratorOnlyWhenValid ==
    [][/\ calls' # calls =>
            /\ calls' = calls + 1
            /\ key
            /\ \E r \in BagToSet(inflight') :
                  /\ r.op = "analyze"
                  /\ r.data.body = "object" /\ ~QueryMissing(r.data)
                  /\ inflight' = Enter(r)
       /\ (Completed /\ last'.op = "analyze" /\ (~key \/ QueryMissing(last'.data)))
            => (calls' = calls /\ last'.upstream = "none")
       /\ BagCardinality(inflight') <= BagCardinality(inflight) => calls' = calls
      ]_vars

C2_Witness ==
    /\ calls >= 1
    /\ last.op = "analyze" /\ last.data.body = "object" /\ last.data.query = ""
    /\ key

\* C3: a create request whose cliente or query is absent or empty is answered
\* with status 400 and the table, hence the list, is what it was before.
C3_InvalidCreateRejected ==
    [][(Completed /\ last'.op = "create" /\ CreateInvalid(last'.data)) =>
            /\ last'.status = 400
            /\ cards' = cards
            /\ ToDicts(OrderByIdDesc(cards')) = ToDicts(OrderByIdDesc(cards))
      ]_vars

C3_Witness ==
    /\ last.op = "create" /\ last.status = 400
    /\ last.data.body = "object" /\ last.data.cliente = "" /\ last.data.query = "SELECT 1"
    /\ cards # {}

\* C4: a list request returns status 200 and exactly the stored cards, each
\* once, in strictly descending id order, which is most recently created
\* first; the empty table gives the empty sequence.
C4_ListDescending ==
    [][(Completed /\ last'.op = "list") =>
            LET out == last'.cards IN
            /\ last'.status = 200
            /\ Len(out) = Cardinality(cards')
            /\ {out[i] : i \in 1..Len(out)} = {to_dict(c) : c \in cards'}
            /\ \A i, j \in 1..Len(out) :
                  i < j => /\ out[i].id > out[j].id
                           /\ Birth(assigned', out[i].id) > Birth(assigned', out[j].id)
            /\ cards' = {} => out = <<>>
      ]_vars

C4_Witness ==
    /\ last.op = "list" /\ last.status = 200
    /\ Len(last.cards) >= 2

\* C5: every create assigns an id greater than every id assigned before, so
\* different from the id of every card that exists or ever existed.
C5_IdsFreshAndIncreasing ==
    \A i, j \in 1..Len(assigned) : i < j => assigned[i] < assigned[j]

\* C6: a successful delete of a stored card removes exactly that card; after
\* it, until a create hands the id out again, the id is not stored, and a
\* delete request for it that starts then is answered 404 and changes nothing.
C6_DeleteThenNotFound ==
    [][/\ (Finished /\ last'.op = "delete" /\ last'.status = 200
              /\ last'.id \in Ids(cards)) =>
            /\ cards' = {c \in cards : c.id # last'.id}
            /\ Cardinality(cards') = Cardinality(cards) - 1
            /\ \A i \in 1..Len(ToDicts(OrderByIdDesc(cards'))) :
                  ToDicts(OrderByIdDesc(cards'))[i].id # last'.id
       /\ gone' \cap Ids(cards') = {}
       /\ \A r \in BagToSet(inflight') :
            (r.op = "delete" /\ inflight' = Enter(r)) => r.id \notin gone
       /\ (Completed /\ inflight' = inflight /\ last'.op = "delete" /\ last'.id \in gone) =>
            (last'.status = 404 /\ cards' = cards)
      ]_vars

C6_Witness ==
    /\ last.op = "delete" /\ last.status = 404
    /\ last.id \in gone
    /\ cards # {}

\* C7 as stated: every stored card has a non-empty client and query and a
\* note that is a string, never absent and never null.
C7_NoteNeverNull ==
    \A c \in cards :
        /\ c.cliente \notin {Absent, Null, ""}
        /\ c.query_sql \notin {Absent, Null, ""}
        /\ c.observacao \notin {Absent, Null}

\* C7 amended: every stored card has a non-empty client and query and a note
\* that is never absent: it is the empty string when obs was omitted, and
\* otherwise what the payload supplied, null included.
C7_NoteStringOrNull ==
    /\ \A c \in cards :
        /\ c.cliente \notin {Absent, Null, ""}
        /\ c.query_sql \notin {Absent, Null, ""}
        /\ c.observacao # Absent
    /\ (last.op = "create" /\ last.status = 201) =>
        /\ last.cards[1].obs = (IF last.data.obs = Absent THEN "" ELSE last.data.obs)
        /\ last.cards[1].cliente = last.data.cliente
        /\ last.cards[1].query = last.data.query

C7_Witness ==
    /\ \E c \in cards : c.observacao = Null
    /\ \E c \in cards : c.observacao = ""

\* C8: when the collaborator raises, the request is answered with status 500
\* and an erro body that carries the collaborator's message; the worker is
\* free again, and the table, the configuration and every other request in
\* flight are what they were.
C8_UpstreamFailureContained ==
    [][(Finished /\ last'.upstream \in FailMsgs) =>
            /\ last'.op = "analyze" /\ last'.status = 500 /\ last'.kind = "erro"
            /\ last'.text # <<>> /\ last'.text[Len(last'.text)] = last'.upstream
            /\ \E r \in BagToSet(inflight) :
                  r.op = "analyze" /\ inflight' = Leave(r)
            /\ UNCHANGED <<key, backend, cards, seq, assigned, gone, calls>>
      ]_vars

C8_Witness ==
    /\ last.upstream \in FailMsgs /\ last.status = 500
    /\ cards # {}
    /\ inflight # EmptyBag

\* C9 as stated: an analyze request with an empty or absent query that
\* arrives while no credential is configured is answered with status 400.
C9_ValidateBeforeConfig ==
    (last.op = "analyze" /\ ~key /\ QueryMissing(last.data)) => last.status = 400

\* C9 amended: the credential is checked first: an analyze request with an
\* empty or absent query that arrives while no credential is configured is
\* answered with status 500 and the message that the key is not configured.
C9_ConfigBeforeValidate ==
    (last.op = "analyze" /\ ~key /\ QueryMissing(last.data)) =>
        /\ last.status = 500 /\ last.kind = "erro"
        /\ last.text = <<MsgChave>>
        /\ last.upstream = "none"

C9_Witness ==
    /\ last.op = "analyze" /\ ~key
    /\ last.data.body = "object" /\ last.data.query = ""
    /\ last.status = 500

\* C10: a delete request reports success only if it removed a row itself: of
\* two delete requests that looked the same card up, only one ends with 200.
C10_SuccessOnlyIfRemoved ==
    [][(Finished /\ last'.op = "delete" /\ last'.status = 200) =>
            /\ last'.id \in Ids(cards)
            /\ cards' # cards
      ]_vars

====
